---- MODULE Spec2Model ----
(***************************************************************************)
(* pdb_reordername.py: check_input validates the command line, run is the  *)
(* generator that learns the atom order of the selected residue names and  *)
(* replays the later residues in that order, main writes the yielded lines *)
(* to sys.stdout through a buffer of _buffer_size lines.                   *)
(*                                                                         *)
(* A line is the sequence of its characters.  The lists and dicts of run   *)
(* hold references to the line objects read from the file; a reference is  *)
(* the 1-based position of the line in the file, and input[r] is its text. *)
(***************************************************************************)
EXTENDS Integers, Sequences, FiniteSets, Bags, TLC

VARIABLES
    pc,                 \* position in main / in the generator run; "exit_1" after sys.exit(1)
    entry,              \* "main": started from the command line; "run": run called directly
    args,               \* sys.argv[1:]
    stdin_isatty,       \* sys.stdin.isatty()
    isfile,             \* os.path.isfile(<the file argument>)
    input,              \* the lines of the file behind fhandle, in file order
    fhandle,            \* number of lines the iterator fhandle has handed out
    resname_set,
    ref_atom_order,     \* dict: residue name -> list of atom names
    residue_lines,      \* dict in insertion order: sequence of [resid, lines]
    not_residues_lines,
    buffer_line,        \* None or the line on which the first loop broke
    bucket,             \* number of items of residue_lines the replay loop has taken
    pending,            \* lines of the current item that are still to be yielded
    held,               \* number of not_residues_lines already yielded
    output,             \* the lines yielded so far, in yield order
    lineno,             \* number of yielded lines the loop of main has taken
    _buffer,            \* the lines main has not written yet
    stdout,             \* the text written to sys.stdout
    ioerror             \* a write to sys.stdout raised IOError

vars == <<pc, entry, args, stdin_isatty, isfile, input, fhandle,
          resname_set, ref_atom_order, residue_lines, not_residues_lines,
          buffer_line, bucket, pending, held, output,
          lineno, _buffer, stdout, ioerror>>

\* the state of main's writer
writer == <<lineno, _buffer, stdout, ioerror>>

None == 0

\* main writes N lines at a time
_buffer_size == 5000

\* ---------------------------------------------------------------- bounds
MaxLen == 4
MaxLenShared == 6
MaxFileLen == 3
MaxFlushes == 1

\* ---------------------------------------------------------------- strings
Min(a, b) == IF a < b THEN a ELSE b

Whitespace == {" ", "\t", "\n", "\r"}

RECURSIVE LStrip(_)
LStrip(s) == IF s # <<>> /\ Head(s) \in Whitespace THEN LStrip(Tail(s)) ELSE s

RECURSIVE RStrip(_)
RStrip(s) ==
    IF s # <<>> /\ s[Len(s)] \in Whitespace
    THEN RStrip(SubSeq(s, 1, Len(s) - 1))
    ELSE s

\* str.strip()
Strip(s) == RStrip(LStrip(s))

\* s[a:b] for 0 <= a <= b, clipped to the length of s
Slice(s, a, b) == SubSeq(s, a + 1, Min(b, Len(s)))

\* str.startswith(p)
StartsWith(s, p) == Len(s) >= Len(p) /\ SubSeq(s, 1, Len(p)) = p

LowerCase == <<"a","b","c","d","e","f","g","h","i","j","k","l","m",
               "n","o","p","q","r","s","t","u","v","w","x","y","z">>
UpperCase == <<"A","B","C","D","E","F","G","H","I","J","K","L","M",
               "N","O","P","Q","R","S","T","U","V","W","X","Y","Z">>

UpperChar(c) ==
    IF \E i \in DOMAIN LowerCase : LowerCase[i] = c
    THEN UpperCase[CHOOSE i \in DOMAIN LowerCase : LowerCase[i] = c]
    ELSE c

\* str.upper()
Upper(s) == [i \in DOMAIN s |-> UpperChar(s[i])]

\* str.split(','): the maximal comma-free pieces, in order
RECURSIVE SplitFrom(_, _)
SplitFrom(s, cur) ==
    IF s = <<>> THEN <<cur>>
    ELSE IF Head(s) = "," THEN <<cur>> \o SplitFrom(Tail(s), <<>>)
    ELSE SplitFrom(Tail(s), Append(cur, Head(s)))

Split(s) == SplitFrom(s, <<>>)

\* ---------------------------------------------------------------- lines
records == << <<"A","T","O","M">>, <<"H","E","T","A","T","M">>,
              <<"A","N","I","S","O","U">>, <<"T","E","R">> >>

\* line.startswith(records)
IsRecord(line) == \E i \in DOMAIN records : StartsWith(line, records[i])

\* line[17:20].strip()
ResName(line) == Strip(Slice(line, 17, 20))

\* line[12:16].strip()
AtomName(line) == Strip(Slice(line, 12, 16))

\* the field is taken as it stands
ResIdExact(line) == Slice(line, 22, 26)

\* line[22:26].strip()
ResId(line) == Strip(Slice(line, 22, 26))

\* ---------------------------------------------------------------- inputs
\* The columns of a coordinate line: record name [0,6), serial and blank
\* [6,12), atom name [12,16), altLoc [16,17), residue name [17,20), blank and
\* chain [20,22), residue sequence id [22,26).
Cols(rec, name, res, seq) ==
    rec \o <<" "," "," "," ","1"," ">> \o name \o <<" ">> \o res \o <<" ","A">> \o seq

ATOM == <<"A","T","O","M"," "," ">>
ANISOU == <<"A","N","I","S","O","U">>
HETATM == <<"H","E","T","A","T","M">>
ALA == <<"A","L","A">>
GLY == <<"G","L","Y">>
HOH == <<"H","O","H">>

LineRemark == <<"R","E","M","A","R","K">>
LineTer    == <<"T","E","R">>
LineAlaN1  == Cols(ATOM,   <<" ","N"," "," ">>, ALA, <<" "," "," ","1">>)
LineAlaCA1 == Cols(ATOM,   <<" ","C","A"," ">>, ALA, <<" "," "," ","1">>)
LineAlaN1U == Cols(ANISOU, <<" ","N"," "," ">>, ALA, <<" "," "," ","1">>)
LineAlaN2  == Cols(ATOM,   <<" ","N"," "," ">>, ALA, <<" "," "," ","2">>)
LineAlaCA2 == Cols(ATOM,   <<" ","C","A"," ">>, ALA, <<" "," "," ","2">>)
LineGlyN2  == Cols(ATOM,   <<" ","N"," "," ">>, GLY, <<"2"," "," "," ">>)
LineHoh3   == Cols(HETATM, <<" ","O"," "," ">>, HOH, <<" "," "," ","3">>)

Alphabet == {LineRemark, LineTer, LineHoh3, LineAlaN1, LineAlaCA1, LineAlaN1U,
             LineAlaCA2, LineGlyN2}

\* lines of two residue names of the set that meet in one residue sequence id
SharedAlphabet == {LineAlaN1, LineAlaN2, LineAlaCA2, LineGlyN2}

\* lines of the files the script is started on
FileAlphabet == {LineRemark, LineHoh3, LineAlaN1}

SeqsUpTo(S, n) == UNION {[1..k -> S] : k \in 0..n}

Inputs == SeqsUpTo(Alphabet, MaxLen)
SharedInputs == SeqsUpTo(SharedAlphabet, MaxLenShared)
FileInputs == SeqsUpTo(FileAlphabet, MaxFileLen)
WriterInputs == SeqsUpTo(Alphabet, MaxFileLen)

\* files of lines that are no records, which fill main's buffer MaxFlushes
\* times at most, exactly or with one line more
LineEnd == <<"E","N","D">>
LongLine(i) == IF i % 2 = 1 THEN LineRemark ELSE LineEnd
LongInputs == {[i \in 1..(k * _buffer_size + d) |-> LongLine(i)] :
                  k \in 1..MaxFlushes, d \in {0, 1}}

ResnameSets == {{ALA, GLY}}

Dash == <<"-">>
FileArg == <<"f",".","p","d","b">>
Options == { <<>>,                                          \* -
             ALA,                                           \* -ALA
             <<"a","l","a",",","G","l","y">>,               \* -ala,Gly
             <<" ","a","l","a"," ",","," ",",">>,           \* "- ala , ,"
             <<",",",">>,                                   \* -,,
             <<"A","L","A","X">>,                           \* -ALAX
             <<"G","L","Y",","," ","h","o","h","2"," ">> }  \* "-GLY, hoh2 "

ArgLists == {<<>>, <<FileArg>>, <<FileArg, FileArg>>, <<Dash, Dash, FileArg>>}
            \cup {<<Dash \o o>> : o \in Options}
            \cup {<<Dash \o o, FileArg>> : o \in Options}

EmptyDict == [k \in {} |-> <<>>]

\* ---------------------------------------------------------------- check_input
\* the exits of check_input that come before the validation of the option
EarlyExit(a, tty, isf) ==
    CASE Len(a) = 0 -> tty
      [] Len(a) = 1 -> IF StartsWith(a[1], Dash) THEN tty ELSE ~isf
      [] Len(a) = 2 -> ~StartsWith(a[1], Dash) \/ ~isf
      [] OTHER -> TRUE

\* the value of option when the validation is reached
Option(a) ==
    CASE Len(a) = 1 /\ StartsWith(a[1], Dash) -> Tail(a[1])
      [] Len(a) = 2 -> Tail(a[1])
      [] OTHER -> <<>>

\* set([o.upper().strip() for o in option.split(',') if o.strip()])
OptionSet(option) ==
    LET pieces == Split(option)
    IN  {Strip(Upper(pieces[i])) : i \in {j \in DOMAIN pieces : Strip(pieces[j]) # <<>>}}

\* the length test lets four characters through
InvalidOver4(option_set) == \E elem \in option_set : Len(elem) > 4

\* some element of the set fails the length test
Invalid(option_set) == \E elem \in option_set : Len(elem) > 3

CheckInputExit ==
    /\ pc = "check_input"
    /\ \/ EarlyExit(args, stdin_isatty, isfile)
       \/ OptionSet(Option(args)) = {}
       \/ Invalid(OptionSet(Option(args)))
    /\ pc' = "exit_1"
    /\ UNCHANGED <<entry, args, stdin_isatty, isfile, input, fhandle, resname_set,
                   ref_atom_order, residue_lines, not_residues_lines,
                   buffer_line, bucket, pending, held, output>>
    /\ UNCHANGED writer

\* check_input returns and main hands the set to run
CheckInputReturn ==
    /\ pc = "check_input"
    /\ ~EarlyExit(args, stdin_isatty, isfile)
    /\ OptionSet(Option(args)) # {}
    /\ ~Invalid(OptionSet(Option(args)))
    /\ resname_set' = OptionSet(Option(args))
    /\ pc' = "phase1"
    /\ UNCHANGED <<entry, args, stdin_isatty, isfile, input, fhandle,
                   ref_atom_order, residue_lines, not_residues_lines,
                   buffer_line, bucket, pending, held, output>>
    /\ UNCHANGED writer

\* ---------------------------------------------------------------- run
\* the generator runs when its caller asks for the next line: main does so
\* once the body of its loop is through with the line yielded last
Resumed == entry = "run" \/ lineno = Len(output)

Line == input[fhandle + 1]

\* ref_atom_order[resname].append(atom_name), the list being created when missing
Learn(order, resname, atom_name) ==
    [k \in DOMAIN order \cup {resname} |->
        IF k = resname
        THEN Append(IF resname \in DOMAIN order THEN order[resname] ELSE <<>>, atom_name)
        ELSE order[k]]

\* ref_atom_order[resname] once the missing list has been created
AtomOrder(order, resname) ==
    IF resname \in DOMAIN order THEN order[resname] ELSE <<>>

InList(x, list) == \E i \in DOMAIN list : list[i] = x

HasKey(dict, resid) == \E i \in DOMAIN dict : dict[i].resid = resid

\* a new key goes before the keys the dict already has
AddLineFront(dict, resid, line) ==
    IF HasKey(dict, resid)
    THEN [i \in DOMAIN dict |->
            IF dict[i].resid = resid
            THEN [dict[i] EXCEPT !.lines = Append(@, line)]
            ELSE dict[i]]
    ELSE <<[resid |-> resid, lines |-> <<line>>]>> \o dict

\* the key is the residue sequence id together with the residue name
AddLineByName(dict, resid, line) ==
    LET key == resid \o <<":">> \o ResName(input[line])
    IN  IF HasKey(dict, key)
        THEN [i \in DOMAIN dict |->
                IF dict[i].resid = key
                THEN [dict[i] EXCEPT !.lines = Append(@, line)]
                ELSE dict[i]]
        ELSE Append(dict, [resid |-> key, lines |-> <<line>>])

\* residue_lines[resid].append(line), the list being created when missing; a
\* new key goes after the keys the dict already has
AddLine(dict, resid, line) ==
    IF HasKey(dict, resid)
    THEN [i \in DOMAIN dict |->
            IF dict[i].resid = resid
            THEN [dict[i] EXCEPT !.lines = Append(@, line)]
            ELSE dict[i]]
    ELSE Append(dict, [resid |-> resid, lines |-> <<line>>])

\* not_residues_lines.insert(0, line)
HoldFront(list, line) == <<line>> \o list

\* not_residues_lines.append(line)
Hold(list, line) == Append(list, line)

\* the first loop: a line that is not a record is yielded
Phase1PassThrough ==
    /\ pc = "phase1"
    /\ Resumed
    /\ fhandle < Len(input)
    /\ ~IsRecord(Line)
    /\ output' = Append(output, fhandle + 1)
    /\ fhandle' = fhandle + 1
    /\ UNCHANGED <<pc, entry, args, stdin_isatty, isfile, input, resname_set,
                   ref_atom_order, residue_lines, not_residues_lines,
                   buffer_line, bucket, pending, held>>
    /\ UNCHANGED writer

\* the first loop: a record of a residue name of the set with a new atom name
Phase1Learn ==
    /\ pc = "phase1"
    /\ Resumed
    /\ fhandle < Len(input)
    /\ IsRecord(Line)
    /\ ResName(Line) \in resname_set
    /\ ~InList(AtomName(Line), AtomOrder(ref_atom_order, ResName(Line)))
    /\ ref_atom_order' = Learn(ref_atom_order, ResName(Line), AtomName(Line))
    /\ output' = Append(output, fhandle + 1)
    /\ fhandle' = fhandle + 1
    /\ UNCHANGED <<pc, entry, args, stdin_isatty, isfile, input, resname_set,
                   residue_lines, not_residues_lines, buffer_line, bucket,
                   pending, held>>
    /\ UNCHANGED writer

\* the line of the break is yielded before the loop breaks
Phase1RepeatYield ==
    /\ pc = "phase1"
    /\ Resumed
    /\ fhandle < Len(input)
    /\ IsRecord(Line)
    /\ ResName(Line) \in resname_set
    /\ InList(AtomName(Line), AtomOrder(ref_atom_order, ResName(Line)))
    /\ output' = Append(output, fhandle + 1)
    /\ buffer_line' = fhandle + 1
    /\ fhandle' = fhandle + 1
    /\ pc' = "buffer"
    /\ UNCHANGED <<entry, args, stdin_isatty, isfile, input, resname_set,
                   ref_atom_order, residue_lines, not_residues_lines, bucket,
                   pending, held>>
    /\ UNCHANGED writer

\* the first loop: a record of a residue name of the set whose atom name is
\* already in the list; the loop breaks on it
Phase1Repeat ==
    /\ pc = "phase1"
    /\ Resumed
    /\ fhandle < Len(input)
    /\ IsRecord(Line)
    /\ ResName(Line) \in resname_set
    /\ InList(AtomName(Line), AtomOrder(ref_atom_order, ResName(Line)))
    /\ buffer_line' = fhandle + 1
    /\ fhandle' = fhandle + 1
    /\ pc' = "buffer"
    /\ UNCHANGED <<entry, args, stdin_isatty, isfile, input, resname_set,
                   ref_atom_order, residue_lines, not_residues_lines, bucket,
                   pending, held, output>>
    /\ UNCHANGED writer

\* the first loop: a record of a residue name outside the set; the if has no
\* else branch
Phase1Skip ==
    /\ pc = "phase1"
    /\ Resumed
    /\ fhandle < Len(input)
    /\ IsRecord(Line)
    /\ ResName(Line) \notin resname_set
    /\ fhandle' = fhandle + 1
    /\ UNCHANGED <<pc, entry, args, stdin_isatty, isfile, input, resname_set,
                   ref_atom_order, residue_lines, not_residues_lines,
                   buffer_line, bucket, pending, held, output>>
    /\ UNCHANGED writer

\* the first loop ends because fhandle is exhausted
Phase1End ==
    /\ pc = "phase1"
    /\ Resumed
    /\ fhandle = Len(input)
    /\ pc' = "buffer"
    /\ UNCHANGED <<entry, args, stdin_isatty, isfile, input, fhandle,
                   resname_set, ref_atom_order, residue_lines,
                   not_residues_lines, buffer_line, bucket, pending, held, output>>
    /\ UNCHANGED writer

\* if buffer_line: the line of the break goes into the dict
RouteBufferLine ==
    /\ pc = "buffer"
    /\ Resumed
    /\ buffer_line # None
    /\ residue_lines' =
          IF IsRecord(input[buffer_line]) /\ ResName(input[buffer_line]) \in resname_set
          THEN AddLine(residue_lines, ResId(input[buffer_line]), buffer_line)
          ELSE residue_lines
    /\ pc' = "phase2"
    /\ UNCHANGED <<entry, args, stdin_isatty, isfile, input, fhandle,
                   resname_set, ref_atom_order, not_residues_lines, buffer_line,
                   bucket, pending, held, output>>
    /\ UNCHANGED writer

\* if buffer_line: nothing to do when the first loop did not break
NoBufferLine ==
    /\ pc = "buffer"
    /\ Resumed
    /\ buffer_line = None
    /\ pc' = "phase2"
    /\ UNCHANGED <<entry, args, stdin_isatty, isfile, input, fhandle,
                   resname_set, ref_atom_order, residue_lines,
                   not_residues_lines, buffer_line, bucket, pending, held, output>>
    /\ UNCHANGED writer

\* the second loop goes on learning atom names
Phase2BucketLearn ==
    /\ pc = "phase2"
    /\ Resumed
    /\ fhandle < Len(input)
    /\ IsRecord(Line)
    /\ ResName(Line) \in resname_set
    /\ ref_atom_order' =
          IF InList(AtomName(Line), AtomOrder(ref_atom_order, ResName(Line)))
          THEN ref_atom_order
          ELSE Learn(ref_atom_order, ResName(Line), AtomName(Line))
    /\ residue_lines' = AddLine(residue_lines, ResId(Line), fhandle + 1)
    /\ fhandle' = fhandle + 1
    /\ UNCHANGED <<pc, entry, args, stdin_isatty, isfile, input, resname_set,
                   not_residues_lines, buffer_line, bucket, pending, held,
                   output>>
    /\ UNCHANGED writer

\* the second loop: a record of a residue name of the set
Phase2Bucket ==
    /\ pc = "phase2"
    /\ Resumed
    /\ fhandle < Len(input)
    /\ IsRecord(Line)
    /\ ResName(Line) \in resname_set
    /\ residue_lines' = AddLine(residue_lines, ResId(Line), fhandle + 1)
    /\ fhandle' = fhandle + 1
    /\ UNCHANGED <<pc, entry, args, stdin_isatty, isfile, input, resname_set,
                   ref_atom_order, not_residues_lines, buffer_line, bucket,
                   pending, held, output>>
    /\ UNCHANGED writer

\* the line is yielded at once instead of being kept for the end
Phase2HoldYield ==
    /\ pc = "phase2"
    /\ Resumed
    /\ fhandle < Len(input)
    /\ ~(IsRecord(Line) /\ ResName(Line) \in resname_set)
    /\ output' = Append(output, fhandle + 1)
    /\ fhandle' = fhandle + 1
    /\ UNCHANGED <<pc, entry, args, stdin_isatty, isfile, input, resname_set,
                   ref_atom_order, residue_lines, not_residues_lines,
                   buffer_line, bucket, pending, held>>
    /\ UNCHANGED writer

\* the second loop: any other line
Phase2Hold ==
    /\ pc = "phase2"
    /\ Resumed
    /\ fhandle < Len(input)
    /\ ~(IsRecord(Line) /\ ResName(Line) \in resname_set)
    /\ not_residues_lines' = Hold(not_residues_lines, fhandle + 1)
    /\ fhandle' = fhandle + 1
    /\ UNCHANGED <<pc, entry, args, stdin_isatty, isfile, input, resname_set,
                   ref_atom_order, residue_lines, buffer_line, bucket, pending,
                   held, output>>
    /\ UNCHANGED writer

\* the second loop ends because fhandle is exhausted
Phase2End ==
    /\ pc = "phase2"
    /\ Resumed
    /\ fhandle = Len(input)
    /\ pc' = "replay"
    /\ UNCHANGED <<entry, args, stdin_isatty, isfile, input, fhandle,
                   resname_set, ref_atom_order, residue_lines,
                   not_residues_lines, buffer_line, bucket, pending, held, output>>
    /\ UNCHANGED writer

Reverse(s) == [i \in 1..Len(s) |-> s[Len(s) + 1 - i]]

\* the lines whose atom name is in the order, left in the order of the bucket
SortedLinesUngrouped(lines, atom_order) ==
    SelectSeq(lines, LAMBDA r : InList(AtomName(input[r]), atom_order))

\* the groups follow the order, the lines of a group come last first
RECURSIVE SortedLinesUnstable(_, _)
SortedLinesUnstable(lines, atom_order) ==
    IF atom_order = <<>> THEN <<>>
    ELSE Reverse(SelectSeq(lines, LAMBDA r : AtomName(input[r]) = Head(atom_order)))
         \o SortedLinesUnstable(lines, Tail(atom_order))

\* the groups are collected once for each line of the item
SortedLinesPerLine(lines, atom_order) ==
    LET group[i \in 0..Len(lines)] ==
           IF i = 0 THEN <<>>
           ELSE group[i - 1] \o
                SelectSeq(lines, LAMBDA r :
                   /\ AtomName(input[r]) = AtomName(input[lines[i]])
                   /\ InList(AtomName(input[r]), atom_order))
    IN  group[Len(lines)]

\* the lines whose atom name is not in the order follow the groups
SortedLinesKeepRest(lines, atom_order) ==
    LET group[i \in 0..Len(atom_order)] ==
           IF i = 0 THEN <<>>
           ELSE group[i - 1] \o
                SelectSeq(lines, LAMBDA r : AtomName(input[r]) = atom_order[i])
    IN  group[Len(atom_order)] \o
        SelectSeq(lines, LAMBDA r : ~InList(AtomName(input[r]), atom_order))

\* sorted_lines: for each atom name of the order, the lines of that atom name
RECURSIVE SortedLines(_, _)
SortedLines(lines, atom_order) ==
    IF atom_order = <<>> THEN <<>>
    ELSE SelectSeq(lines, LAMBDA r : AtomName(input[r]) = Head(atom_order))
         \o SortedLines(lines, Tail(atom_order))

\* an item without reference order is sorted by an empty order
PlainLinesNone(lines) == <<>>

\* the lines yielded for an item whose residue name has no reference order
PlainLines(lines) == lines

\* the third loop takes the next item; its first line's residue name has a
\* reference order
SortBucket ==
    /\ pc = "replay"
    /\ Resumed
    /\ pending = <<>>
    /\ bucket < Len(residue_lines)
    /\ LET lines == residue_lines[bucket + 1].lines
           resname == ResName(input[lines[1]])
       IN  /\ resname \in DOMAIN ref_atom_order
           /\ pending' = SortedLines(lines, ref_atom_order[resname])
    /\ bucket' = bucket + 1
    /\ UNCHANGED <<pc, entry, args, stdin_isatty, isfile, input, fhandle,
                   resname_set, ref_atom_order, residue_lines,
                   not_residues_lines, buffer_line, held, output>>
    /\ UNCHANGED writer

\* the third loop takes the next item; its first line's residue name has no
\* reference order
PlainBucket ==
    /\ pc = "replay"
    /\ Resumed
    /\ pending = <<>>
    /\ bucket < Len(residue_lines)
    /\ LET lines == residue_lines[bucket + 1].lines
           resname == ResName(input[lines[1]])
       IN  /\ resname \notin DOMAIN ref_atom_order
           /\ pending' = PlainLines(lines)
    /\ bucket' = bucket + 1
    /\ UNCHANGED <<pc, entry, args, stdin_isatty, isfile, input, fhandle,
                   resname_set, ref_atom_order, residue_lines,
                   not_residues_lines, buffer_line, held, output>>
    /\ UNCHANGED writer

\* yield line, for the lines of the current item
YieldBucketLine ==
    /\ pc = "replay"
    /\ Resumed
    /\ pending # <<>>
    /\ output' = Append(output, Head(pending))
    /\ pending' = Tail(pending)
    /\ UNCHANGED <<pc, entry, args, stdin_isatty, isfile, input, fhandle,
                   resname_set, ref_atom_order, residue_lines,
                   not_residues_lines, buffer_line, bucket, held>>
    /\ UNCHANGED writer

\* the third loop ends
ReplayEnd ==
    /\ pc = "replay"
    /\ Resumed
    /\ pending = <<>>
    /\ bucket = Len(residue_lines)
    /\ pc' = "held"
    /\ UNCHANGED <<entry, args, stdin_isatty, isfile, input, fhandle,
                   resname_set, ref_atom_order, residue_lines,
                   not_residues_lines, buffer_line, bucket, pending, held, output>>
    /\ UNCHANGED writer

\* the last loop: yield line
YieldHeld ==
    /\ pc = "held"
    /\ Resumed
    /\ held < Len(not_residues_lines)
    /\ output' = Append(output, not_residues_lines[held + 1])
    /\ held' = held + 1
    /\ UNCHANGED <<pc, entry, args, stdin_isatty, isfile, input, fhandle,
                   resname_set, ref_atom_order, residue_lines,
                   not_residues_lines, buffer_line, bucket, pending>>
    /\ UNCHANGED writer

\* the last loop ends and the generator is exhausted
HeldEnd ==
    /\ pc = "held"
    /\ Resumed
    /\ held = Len(not_residues_lines)
    /\ pc' = "done"
    /\ UNCHANGED <<entry, args, stdin_isatty, isfile, input, fhandle,
                   resname_set, ref_atom_order, residue_lines,
                   not_residues_lines, buffer_line, bucket, pending, held, output>>
    /\ UNCHANGED writer

\* ---------------------------------------------------------------- main
\* ''.join(list), for a list of lines
RECURSIVE Join(_)
Join(list) ==
    IF list = <<>> THEN <<>>
    ELSE IF Len(list) = 1 THEN input[list[1]]
    ELSE LET half == Len(list) \div 2
         IN  Join(SubSeq(list, 1, half)) \o Join(SubSeq(list, half + 1, Len(list)))

\* main is in the body of its loop with the line yielded last
InLoopBody ==
    /\ entry = "main"
    /\ pc \in {"phase1", "replay", "held"}
    /\ lineno < Len(output)

\* the buffer is written and not emptied
MainLoopFlushKeep ==
    /\ InLoopBody
    /\ lineno % _buffer_size = 0
    /\ stdout' = stdout \o Join(_buffer)
    /\ _buffer' = Append(_buffer, output[lineno + 1])
    /\ lineno' = lineno + 1
    /\ UNCHANGED <<pc, entry, args, stdin_isatty, isfile, input, fhandle,
                   resname_set, ref_atom_order, residue_lines,
                   not_residues_lines, buffer_line, bucket, pending, held,
                   output, ioerror>>

\* the body of the loop when lineno is a multiple of _buffer_size: the buffer
\* is written and emptied, then the line is appended
MainLoopFlush ==
    /\ InLoopBody
    /\ lineno % _buffer_size = 0
    /\ stdout' = stdout \o Join(_buffer)
    /\ _buffer' = <<output[lineno + 1]>>
    /\ lineno' = lineno + 1
    /\ UNCHANGED <<pc, entry, args, stdin_isatty, isfile, input, fhandle,
                   resname_set, ref_atom_order, residue_lines,
                   not_residues_lines, buffer_line, bucket, pending, held,
                   output, ioerror>>

\* the body of the loop otherwise: the line is appended
MainLoopAppend ==
    /\ InLoopBody
    /\ lineno % _buffer_size # 0
    /\ _buffer' = Append(_buffer, output[lineno + 1])
    /\ lineno' = lineno + 1
    /\ UNCHANGED <<pc, entry, args, stdin_isatty, isfile, input, fhandle,
                   resname_set, ref_atom_order, residue_lines,
                   not_residues_lines, buffer_line, bucket, pending, held,
                   output, stdout, ioerror>>

\* the generator is exhausted: the rest of the buffer is written, the file is
\* closed and the script exits with status 0
MainExit ==
    /\ entry = "main"
    /\ pc = "done"
    /\ stdout' = stdout \o Join(_buffer)
    /\ pc' = "exit_0"
    /\ UNCHANGED <<entry, args, stdin_isatty, isfile, input, fhandle,
                   resname_set, ref_atom_order, residue_lines,
                   not_residues_lines, buffer_line, bucket, pending, held,
                   output, lineno, _buffer, ioerror>>

\* sys.stdout.write raises IOError, in the loop or after it: the error is
\* passed over, the file is closed and the script exits with status 0
MainIOError ==
    /\ \/ InLoopBody /\ lineno % _buffer_size = 0
       \/ entry = "main" /\ pc = "done"
    /\ ioerror' = TRUE
    /\ pc' = "exit_0"
    /\ UNCHANGED <<entry, args, stdin_isatty, isfile, input, fhandle,
                   resname_set, ref_atom_order, residue_lines,
                   not_residues_lines, buffer_line, bucket, pending, held,
                   output, lineno, _buffer, stdout>>

\* ---------------------------------------------------------------- specification
\* the locals of run at its start
RunLocals ==
    /\ fhandle = 0
    /\ ref_atom_order = EmptyDict
    /\ residue_lines = <<>>
    /\ not_residues_lines = <<>>
    /\ buffer_line = None
    /\ bucket = 0
    /\ pending = <<>>
    /\ held = 0
    /\ output = <<>>

\* the locals of main before its loop, and sys.stdout
MainLocals ==
    /\ lineno = 0
    /\ _buffer = <<>>
    /\ stdout = <<>>
    /\ ioerror = FALSE

\* the script is started with arguments
InitMain ==
    /\ pc = "check_input"
    /\ entry = "main"
    /\ args \in ArgLists
    /\ stdin_isatty \in BOOLEAN
    /\ isfile \in BOOLEAN
    /\ input \in FileInputs
    /\ resname_set = {}
    /\ RunLocals
    /\ MainLocals

\* run is called with the lines of a file and a set of residue names
InitRun(inputs) ==
    /\ pc = "phase1"
    /\ entry = "run"
    /\ args = <<>>
    /\ stdin_isatty = FALSE
    /\ isfile = FALSE
    /\ input \in inputs
    /\ resname_set \in ResnameSets
    /\ RunLocals
    /\ MainLocals

\* the script is started with an option and a file of a whole number of
\* buffers, or one line more
InitLong ==
    /\ pc = "check_input"
    /\ entry = "main"
    /\ args = <<Dash \o ALA, FileArg>>
    /\ stdin_isatty = FALSE
    /\ isfile = TRUE
    /\ input \in LongInputs
    /\ resname_set = {}
    /\ RunLocals
    /\ MainLocals

\* a state of those runs, taken up where main's buffer lacks one line to be
\* full: run has yielded the first _buffer_size - 1 lines from its first loop
\* and main has put them into the buffer, nothing being written yet.  Every
\* such state is reached from InitLong; starting there as well keeps the paths
\* to the first write of a full buffer short.
InitLongAhead ==
    LET taken == [i \in 1..(_buffer_size - 1) |-> i]
    IN  /\ pc = "phase1"
        /\ entry = "main"
        /\ args = <<Dash \o ALA, FileArg>>
        /\ stdin_isatty = FALSE
        /\ isfile = TRUE
        /\ input \in LongInputs
        /\ resname_set = {ALA}
        /\ fhandle = _buffer_size - 1
        /\ ref_atom_order = EmptyDict
        /\ residue_lines = <<>>
        /\ not_residues_lines = <<>>
        /\ buffer_line = None
        /\ bucket = 0
        /\ pending = <<>>
        /\ held = 0
        /\ output = taken
        /\ lineno = _buffer_size - 1
        /\ _buffer = taken
        /\ stdout = <<>>
        /\ ioerror = FALSE

Init == InitMain \/ InitRun(Inputs)

InitWriter == InitMain \/ InitRun(WriterInputs) \/ InitLong \/ InitLongAhead

InitShared == InitMain \/ InitRun(SharedInputs)

Next ==
    \/ CheckInputExit
    \/ CheckInputReturn
    \/ Phase1PassThrough
    \/ Phase1Learn
    \/ Phase1Repeat
    \/ Phase1Skip
    \/ Phase1End
    \/ RouteBufferLine
    \/ NoBufferLine
    \/ Phase2Bucket
    \/ Phase2Hold
    \/ Phase2End
    \/ SortBucket
    \/ PlainBucket
    \/ YieldBucketLine
    \/ ReplayEnd
    \/ YieldHeld
    \/ HeldEnd
    \/ MainLoopFlush
    \/ MainLoopAppend
    \/ MainExit
    \/ MainIOError

Spec == Init /\ [][Next]_vars

SpecShared == InitShared /\ [][Next]_vars

SpecWriter == InitWriter /\ [][Next]_vars

\* ---------------------------------------------------------------- vocabulary of the properties
\* run has been fully consumed
Done == pc = "done"

Refs == 1..Len(input)

\* the text of the lines yielded so far
OutputText == [i \in DOMAIN output |-> input[output[i]]]

\* the multiset of the elements of a sequence
BagOfSeq(s) ==
    [x \in {s[i] : i \in DOMAIN s} |-> Cardinality({i \in DOMAIN s : s[i] = x})]

\* the number of times line r has been yielded, and where
Yields(r) == Cardinality({i \in DOMAIN output : output[i] = r})
Pos(r) == CHOOSE i \in DOMAIN output : output[i] = r

\* place of an atom name in a list of atom names
IndexOf(x, list) == CHOOSE i \in DOMAIN list : list[i] = x

\* the fields of the lines of the input
Names == [r \in Refs |-> ResName(input[r])]
Atoms == [r \in Refs |-> AtomName(input[r])]
Ids   == [r \in Refs |-> ResId(input[r])]

\* line r is a record of a residue name of the set
Matching(r) == IsRecord(input[r]) /\ ResName(input[r]) \in resname_set

\* the first loop broke on a line (the phase transition happened)
Transitioned == buffer_line # None

\* the lines run handles in phase 2, by where they are collected
Phase2Refs == IF Transitioned THEN {r \in Refs : r >= buffer_line} ELSE {}
BucketRefs == {r \in Phase2Refs : Matching(r)}
HeldRefs == {r \in Phase2Refs : ~Matching(r)}

\* for each bucket line, the first line with its residue sequence id
Firsts ==
    LET B == BucketRefs
        id == Ids
    IN  [r \in B |-> CHOOSE q \in B :
                        /\ id[q] = id[r]
                        /\ \A o \in B : id[o] = id[r] => q <= o]

\* for each bucket line, the residue name that governs its bucket
Governors ==
    LET first == Firsts
        name == Names
    IN  [r \in DOMAIN first |-> name[first[r]]]

\* the lines of the bucket of line r, its first line and its governing name
BucketOf(r) ==
    LET id == ResId(input[r])
    IN  {q \in BucketRefs : ResId(input[q]) = id}
FirstOf(r) == Firsts[r]
Governor(r) == Governors[r]

\* how often each line has been yielded, and where it was yielded first
YieldCounts == [r \in Refs |-> Cardinality({i \in DOMAIN output : output[i] = r})]
Places ==
    [r \in Refs |->
        IF \E i \in DOMAIN output : output[i] = r
        THEN CHOOSE i \in DOMAIN output : output[i] = r /\ \A j \in 1..(i - 1) : output[j] # r
        ELSE 0]

\* the increasing sequence of the members of a set of line references
RECURSIVE Ascending(_)
Ascending(S) ==
    IF S = {} THEN <<>>
    ELSE LET m == CHOOSE x \in S : \A y \in S : x <= y
         IN  <<m>> \o Ascending(S \ {m})

\* ---------------------------------------------------------------- C1
\* C1: once run has been fully consumed, the multiset of the lines it
\* yielded equals the multiset of the input lines.
C1_Conservation == Done => BagOfSeq(OutputText) = BagOfSeq(input)

\* ---------------------------------------------------------------- C2
\* C2: when no line of the input has a trimmed residue-name field that is in
\* the set, the output equals the input line for line.
C2_NoOp ==
    (Done /\ \A r \in Refs : ResName(input[r]) \notin resname_set)
        => OutputText = input

\* ---------------------------------------------------------------- C3
\* no atom name occurs twice among the record lines of one residue name of the set
NoRepeat ==
    \A p, q \in Refs :
        (p < q /\ Matching(p) /\ Matching(q) /\ ResName(input[p]) = ResName(input[q]))
            => AtomName(input[p]) # AtomName(input[q])

\* C3: when no atom name occurs twice within a residue name of the set, no
\* line is ever buffered and the output equals the input unchanged.
C3_SingleOccurrence ==
    (Done /\ NoRepeat)
        => /\ ~Transitioned
           /\ residue_lines = <<>>
           /\ not_residues_lines = <<>>
           /\ OutputText = input

\* ---------------------------------------------------------------- C4
\* atom names a and b are both in the order, a before b
Before(a, b, order) ==
    /\ InList(a, order)
    /\ InList(b, order)
    /\ IndexOf(a, order) < IndexOf(b, order)

\* C4 as stated: every phase-2 residue instance of a learned name R (the
\* lines of name R with one residue sequence id) is yielded in R's learned
\* order, also when it shares its sequence id with lines of another name.
C4_EveryInstance ==
    Done =>
        LET B == BucketRefs
            yields == YieldCounts
            pos == Places
            name == Names
            atom == Atoms
            id == Ids
        IN  \A R \in DOMAIN ref_atom_order :
                \A p, q \in B :
                    (/\ name[p] = R
                     /\ name[q] = R
                     /\ id[p] = id[q]
                     /\ Before(atom[p], atom[q], ref_atom_order[R])
                     /\ yields[p] > 0
                     /\ yields[q] > 0)
                        => pos[p] < pos[q]

\* C4 as amended: the lines of name R are yielded in R's learned order in
\* every bucket whose first line has residue name R.
C4_GovernedInstance ==
    Done =>
        LET B == BucketRefs
            yields == YieldCounts
            pos == Places
            name == Names
            atom == Atoms
            id == Ids
            gov == Governors
        IN  \A R \in DOMAIN ref_atom_order :
                \A p, q \in B :
                    (/\ name[p] = R
                     /\ name[q] = R
                     /\ id[p] = id[q]
                     /\ gov[p] = R
                     /\ Before(atom[p], atom[q], ref_atom_order[R])
                     /\ yields[p] > 0
                     /\ yields[q] > 0)
                        => pos[p] < pos[q]

\* a residue instance governed by its own name came in the reverse of the
\* learned order and both lines were yielded
C4_Witness ==
    /\ Done
    /\ \E p, q \in BucketRefs :
          /\ q < p
          /\ ResName(input[p]) = ResName(input[q])
          /\ ResId(input[p]) = ResId(input[q])
          /\ Governor(p) = ResName(input[p])
          /\ Governor(p) \in DOMAIN ref_atom_order
          /\ Before(AtomName(input[p]), AtomName(input[q]), ref_atom_order[Governor(p)])
          /\ Yields(p) = 1
          /\ Yields(q) = 1

\* ---------------------------------------------------------------- C5
\* the bucket of line r is governed by a residue name with a reference order
Learned(r) == Governor(r) \in DOMAIN ref_atom_order

\* C5: in a bucket whose first line's residue name has a reference order, the
\* yielded lines come grouped by atom name in the sequence of that order, and
\* two yielded lines with the same atom name keep their input order.
C5_StableGrouping ==
    Done =>
        LET B == BucketRefs
            yields == YieldCounts
            pos == Places
            atom == Atoms
            id == Ids
            gov == Governors
        IN  \A p, q \in B :
                (/\ id[p] = id[q]
                 /\ gov[p] \in DOMAIN ref_atom_order
                 /\ yields[p] > 0
                 /\ yields[q] > 0)
                    => LET order == ref_atom_order[gov[p]]
                       IN  /\ InList(atom[p], order)
                           /\ InList(atom[q], order)
                           /\ Before(atom[p], atom[q], order) => pos[p] < pos[q]
                           /\ (atom[p] = atom[q] /\ p < q) => pos[p] < pos[q]

\* a learned bucket held a line of a later atom name before a line of an
\* earlier one, and two lines of one atom name
C5_Witness ==
    /\ Done
    /\ \E p, q \in BucketRefs :
          /\ ResId(input[p]) = ResId(input[q])
          /\ Learned(p)
          /\ q < p
          /\ Yields(p) = 1
          /\ Yields(q) = 1
          /\ Before(AtomName(input[p]), AtomName(input[q]), ref_atom_order[Governor(p)])
    /\ \E p, q \in BucketRefs :
          /\ ResId(input[p]) = ResId(input[q])
          /\ Learned(p)
          /\ p < q
          /\ AtomName(input[p]) = AtomName(input[q])
          /\ Yields(p) = 1
          /\ Yields(q) = 1

\* ---------------------------------------------------------------- C6
\* C6: a bucket whose first line's residue name has no reference order is
\* yielded whole, as one block, each line once and in input order.
C6_UnlearnedPassthrough ==
    Done =>
        LET B == BucketRefs
            yields == YieldCounts
            pos == Places
            id == Ids
            first == Firsts
            gov == Governors
        IN  \A r \in B :
                gov[r] \notin DOMAIN ref_atom_order =>
                    /\ yields[r] = 1
                    /\ yields[first[r]] = 1
                    /\ pos[r] = pos[first[r]]
                                  + Cardinality({o \in B : id[o] = id[r] /\ o < r})

\* an unlearned bucket of two lines or more, one of them of a learned name
C6_Witness ==
    /\ Done
    /\ \E r \in BucketRefs :
          /\ ~Learned(r)
          /\ Cardinality(BucketOf(r)) >= 2
          /\ ResName(input[r]) \in DOMAIN ref_atom_order
          /\ Yields(r) = 1

\* ---------------------------------------------------------------- C7
\* C7: after the transition the buckets are yielded one after another in the
\* order in which their keys were created, then the held lines, all of them
\* and in input order; no held line comes before a bucket line.
C7_Phase2Layout ==
    Done =>
        /\ \A h \in HeldRefs : Yields(h) = 1
        /\ \A h1, h2 \in HeldRefs : h1 < h2 => Pos(h1) < Pos(h2)
        /\ \A h \in HeldRefs : \A b \in BucketRefs : Yields(b) > 0 => Pos(b) < Pos(h)
        /\ LET first == Firsts
           IN  \A b1, b2 \in BucketRefs :
                  (Yields(b1) > 0 /\ Yields(b2) > 0 /\ first[b1] < first[b2])
                      => Pos(b1) < Pos(b2)
        /\ \A r \in Refs \ Phase2Refs : \A b \in Phase2Refs :
              (Yields(r) > 0 /\ Yields(b) > 0) => Pos(r) < Pos(b)

\* two buckets were yielded, and a held line that comes before a line of the
\* second bucket in the input was yielded after it
C7_Witness ==
    /\ Done
    /\ \E b1, b2 \in BucketRefs :
          /\ FirstOf(b1) < FirstOf(b2)
          /\ Yields(b1) = 1
          /\ Yields(b2) = 1
          /\ \E h \in HeldRefs : h < b2 /\ Pos(b2) < Pos(h)

\* ---------------------------------------------------------------- C8
PassThroughRefs == {r \in Refs : ~IsRecord(input[r])}
HeldRecordRefs == {r \in HeldRefs : IsRecord(input[r])}

\* C8: the pass-through lines of the output are the pass-through lines of the
\* input in input order, and the records of other residues collected in
\* phase 2 are yielded in input order.
C8_PassThroughOrder ==
    Done =>
        /\ SelectSeq(output, LAMBDA r : r \in PassThroughRefs) = Ascending(PassThroughRefs)
        /\ SelectSeq(output, LAMBDA r : r \in HeldRecordRefs) = Ascending(HeldRecordRefs)

\* two lines or more were held in phase 2, a record of another residue among
\* them, and all of them were yielded
C8_Witness ==
    /\ Done
    /\ Cardinality(HeldRefs) >= 2
    /\ HeldRecordRefs # {}
    /\ \A h \in HeldRefs : Yields(h) = 1

\* ---------------------------------------------------------------- C9
\* the set check_input parses from the arguments
Parsed == OptionSet(Option(args))

\* no argument of the call is an option
NoOptionArg == Len(args) = 0 \/ ~StartsWith(args[1], Dash)

\* C9: check_input returns only a non-empty set of upper-cased, trimmed,
\* non-empty tokens of at most 3 characters; with an empty parsed set (so
\* without option argument) or a token over 3 characters it exits with
\* status 1 and run never starts.
C9_InputValidation ==
    (entry = "main" /\ pc # "check_input") =>
        /\ pc # "exit_1" =>
              /\ resname_set = Parsed
              /\ resname_set # {}
              /\ \A t \in resname_set :
                    Upper(t) = t /\ Strip(t) = t /\ t # <<>> /\ Len(t) <= 3
        /\ (NoOptionArg \/ Parsed = {} \/ \E t \in Parsed : Len(t) > 3) =>
              /\ pc = "exit_1"
              /\ fhandle = 0
              /\ output = <<>>

\* check_input has exited on a set with a good token and a token over 3 characters
C9_Witness ==
    /\ entry = "main"
    /\ pc = "exit_1"
    /\ ~EarlyExit(args, stdin_isatty, isfile)
    /\ \E t \in Parsed : Len(t) > 3
    /\ \E t \in Parsed : Len(t) <= 3

\* ---------------------------------------------------------------- C10
\* C10: in phase 1 a record line whose residue name is not in the set is
\* yielded at once, before the next line is consumed, and phase 1 goes on.
C10_Phase1NonMatchingEmitted ==
    [][(/\ pc = "phase1"
        /\ fhandle < Len(input)
        /\ IsRecord(Line)
        /\ ResName(Line) \notin resname_set)
            => (output' = Append(output, fhandle + 1) /\ pc' = "phase1")]_vars


\* ---------------------------------------------------------------- C11
\* the record lines of a residue name of the set whose atom name an earlier
\* line of that residue name has already
Repeats ==
    LET name == [r \in Refs |-> Strip(Slice(input[r], 17, 20))]
        atom == [r \in Refs |-> Strip(Slice(input[r], 12, 16))]
        tracked == {r \in Refs : IsRecord(input[r]) /\ name[r] \in resname_set}
    IN  {r \in tracked :
            \E p \in tracked : p < r /\ name[p] = name[r] /\ atom[p] = atom[r]}

\* the first such line of the input, 0 when there is none
FirstRepeat ==
    LET repeats == Repeats
    IN  IF repeats = {} THEN 0
        ELSE CHOOSE r \in repeats : \A p \in repeats : r <= p

\* C11: the first record line of a set residue name whose atom name is already
\* in that name's reference order is not yielded in phase 1, ends phase 1,
\* becomes the first line of the first bucket, keyed by its residue sequence
\* id, and is yielded exactly once in the replay.
C11_TriggerLine ==
    LET t == IF fhandle = 0 THEN 0 ELSE FirstRepeat
    IN  (t # 0 /\ fhandle >= t) =>
            /\ buffer_line = t
            /\ pc # "phase1"
            /\ pc \in {"buffer", "phase2"} => \A i \in DOMAIN output : output[i] < t
            /\ pc # "buffer" =>
                  /\ residue_lines # <<>>
                  /\ residue_lines[1].resid = Strip(Slice(input[t], 22, 26))
                  /\ residue_lines[1].lines[1] = t
            /\ \A i, j \in DOMAIN output :
                  (output[i] = t /\ output[j] < t) => j < i
            /\ Cardinality({i \in DOMAIN output : output[i] = t}) <= 1
            /\ Done => Cardinality({i \in DOMAIN output : output[i] = t}) = 1

\* the run is over and the line of the break was yielded in the replay, after
\* a line that was consumed after it
C11_Witness ==
    /\ Done
    /\ FirstRepeat # 0
    /\ buffer_line = FirstRepeat
    /\ \E i, j \in DOMAIN output :
          /\ output[i] = buffer_line
          /\ j < i
          /\ output[j] > buffer_line

\* ---------------------------------------------------------------- C12
\* LEARNING is the first loop; BUFFERING starts when the first loop breaks
Learning == pc = "phase1"

\* one step of run, seen from the two phases
OneWayStep ==
    /\ Transitioned => buffer_line' = buffer_line
    /\ pc \notin {"check_input", "phase1"} => pc' # "phase1"
    /\ (Learning /\ fhandle' # fhandle) =>
          /\ fhandle' = fhandle + 1
          /\ output' = output \/ output' = Append(output, fhandle')
    /\ (Learning /\ fhandle' = fhandle) => output' = output
    /\ (~Transitioned /\ Transitioned') => output' = output
    /\ (Transitioned /\ output' # output) =>
          /\ fhandle = Len(input)
          /\ pc \in {"replay", "held"}
          /\ Len(output') = Len(output) + 1
          /\ output'[Len(output')] >= buffer_line

\* C12: run leaves the first loop for the buffering phase at most once and
\* never comes back; in the first loop a consumed line causes at most one
\* yield, of that same line, before the next line is consumed; after the break
\* nothing is yielded until the input is exhausted, and when run ends every
\* item of the dict and every kept line has been replayed.
C12_OneWayBarrier ==
    /\ [][OneWayStep]_vars
    /\ [](Done => /\ bucket = Len(residue_lines)
                  /\ pending = <<>>
                  /\ held = Len(not_residues_lines)
                  /\ \A r \in HeldRefs : \E i \in DOMAIN output : output[i] = r)

\* the run is over, the first loop broke, lines were yielded before the break
\* and kept lines and item lines were yielded after the end of the input
C12_Witness ==
    /\ Done
    /\ Transitioned
    /\ \E i \in DOMAIN output : output[i] < buffer_line
    /\ \E i \in DOMAIN output : output[i] \in HeldRefs
    /\ \E i \in DOMAIN output : output[i] \in BucketRefs

\* ---------------------------------------------------------------- C13
\* the lines of residue names of the set consumed by the first loop before
\* the break
LearnedRefs ==
    {r \in 1..(IF Transitioned THEN buffer_line - 1 ELSE fhandle) : Matching(r)}

\* the keys of ref_atom_order are the residue names of those lines, and each
\* entry holds the atom names of the lines of its residue name, each once, in
\* the order of their first lines
FirstSeenOrder ==
    LET name == Names
        atom == Atoms
        learned == LearnedRefs
        FirstSeen(resname, atom_name) ==
           CHOOSE r \in learned :
              /\ name[r] = resname
              /\ atom[r] = atom_name
              /\ \A p \in learned :
                    (name[p] = resname /\ atom[p] = atom_name) => r <= p
    IN  /\ DOMAIN ref_atom_order = {name[r] : r \in learned}
        /\ \A resname \in DOMAIN ref_atom_order :
              LET atom_order == ref_atom_order[resname]
              IN  /\ {atom_order[i] : i \in DOMAIN atom_order}
                        = {atom[r] : r \in {p \in learned : name[p] = resname}}
                  /\ \A i, j \in DOMAIN atom_order :
                        i < j => /\ atom_order[i] # atom_order[j]
                                 /\ FirstSeen(resname, atom_order[i])
                                       < FirstSeen(resname, atom_order[j])

\* C13: after the first repeated atom name no entry of ref_atom_order is
\* added or changed, so a residue name of the set first seen after the break
\* has no entry; each entry holds pairwise distinct atom names in the order in
\* which the first loop saw them first.
C13_FrozenOrder ==
    /\ [][Transitioned => ref_atom_order' = ref_atom_order]_vars
    /\ []FirstSeenOrder

\* the run is over, the first loop broke with an entry of two atom names, and
\* an item holds a line of a residue name of the set that has no entry
C13_Witness ==
    /\ Done
    /\ Transitioned
    /\ \E resname \in DOMAIN ref_atom_order : Len(ref_atom_order[resname]) >= 2
    /\ \E r \in BucketRefs : Names[r] \notin DOMAIN ref_atom_order

\* ---------------------------------------------------------------- C14
\* C14: in the second phase the lines of residue names of the set are put
\* together by residue sequence id alone, so lines of two different residue
\* names with one id are in one item; the residue name of the first line of
\* the item alone decides the fate of every line of the item: with a reference
\* order for that name the lines are yielded in that order (lines of one atom
\* name in input order, lines whose atom name is not in it not at all),
\* without one they are all yielded in input order.
C14_FirstLineGoverns ==
    LET id == Ids
        atom == Atoms
        governor == Governors
        count == YieldCounts
        place == Places
    IN  /\ pc \in {"replay", "held", "done"} =>
              \A p, q \in BucketRefs :
                 id[p] = id[q] =>
                    \E k \in DOMAIN residue_lines :
                       /\ InList(p, residue_lines[k].lines)
                       /\ InList(q, residue_lines[k].lines)
        /\ Done =>
              \A p \in BucketRefs :
                 LET learned == governor[p] \in DOMAIN ref_atom_order
                     atom_order == AtomOrder(ref_atom_order, governor[p])
                 IN  /\ count[p] = IF learned /\ ~InList(atom[p], atom_order)
                                   THEN 0 ELSE 1
                     /\ \A q \in BucketRefs :
                           (id[p] = id[q] /\ count[p] = 1 /\ count[q] = 1
                                /\ place[p] < place[q]) =>
                              IF learned
                              THEN \/ Before(atom[p], atom[q], atom_order)
                                   \/ atom[p] = atom[q] /\ p < q
                              ELSE p < q

\* the run is over and an item led by a residue name with a reference order
\* holds a later line of another residue name, which was yielded before the
\* first line of the item
C14_Witness ==
    /\ Done
    /\ \E p, q \in BucketRefs :
          /\ p < q
          /\ Ids[p] = Ids[q]
          /\ Names[p] # Names[q]
          /\ Governors[q] = Names[p]
          /\ Names[p] \in DOMAIN ref_atom_order
          /\ Names[q] \notin DOMAIN ref_atom_order
          /\ Places[q] # 0
          /\ Places[q] < Places[p]

\* ---------------------------------------------------------------- C15
\* lines p and q are in one item of residue_lines
SameItem(p, q) ==
    \E k \in DOMAIN residue_lines :
       /\ InList(p, residue_lines[k].lines)
       /\ InList(q, residue_lines[k].lines)

\* C15 as stated: two lines of residue names of the set seen in the second
\* phase are in one item exactly when their fields [22,26) are identical
\* character for character.
C15_ExactField ==
    pc \in {"replay", "held", "done"} =>
       \A p, q \in BucketRefs :
          SameItem(p, q) <=> Slice(input[p], 22, 26) = Slice(input[q], 22, 26)

\* C15: two lines of residue names of the set seen in the second phase are in
\* one item exactly when their fields [22,26) are equal once leading and
\* trailing whitespace is removed; the field is compared as a string and is
\* not read as a number.
C15_StrippedField ==
    pc \in {"replay", "held", "done"} =>
       \A p, q \in BucketRefs :
          SameItem(p, q) <=>
             Strip(Slice(input[p], 22, 26)) = Strip(Slice(input[q], 22, 26))

\* two lines whose fields differ only in the position of the blanks are in
\* one item, and two lines with different ids are in two items
C15_Witness ==
    /\ pc \in {"replay", "held", "done"}
    /\ \E p, q \in BucketRefs :
          /\ Slice(input[p], 22, 26) # Slice(input[q], 22, 26)
          /\ SameItem(p, q)
    /\ \E p, q \in BucketRefs : ~SameItem(p, q)

\* ---------------------------------------------------------------- C16
\* the lines run has taken from fhandle so far
Consumed == SubSeq(input, 1, fhandle)

\* C16: at every point of the run the yielded lines are, with their number of
\* occurrences, among the lines consumed so far; a yielded line is the input
\* line as it was read, and no occurrence of an input line is yielded twice.
C16_NoInvention ==
    /\ \A i \in DOMAIN output : output[i] \in 1..fhandle
    /\ \A i, j \in DOMAIN output : i # j => output[i] # output[j]
    /\ BagOfSeq(OutputText) \sqsubseteq BagOfSeq(Consumed)

\* the run is over and an item with two lines of one atom name and equal text
\* was replayed, each of the two lines once
C16_Witness ==
    /\ Done
    /\ \E p, q \in BucketRefs :
          /\ p # q
          /\ input[p] = input[q]
          /\ YieldCounts[p] = 1
          /\ YieldCounts[q] = 1

\* ---------------------------------------------------------------- C17
\* a record of a residue name outside the set consumed by the first loop
SkippedRefs ==
    {r \in Refs : /\ IsRecord(input[r])
                  /\ Names[r] \notin resname_set
                  /\ Transitioned => r < buffer_line}

\* a line of an item whose first line's residue name has a reference order
\* that does not hold the atom name of the line
UnorderedRefs ==
    LET governor == Governors
        atom == Atoms
    IN  {r \in BucketRefs :
            /\ governor[r] \in DOMAIN ref_atom_order
            /\ ~InList(atom[r], ref_atom_order[governor[r]])}

\* C17: when run is exhausted, the input lines missing from the output are
\* exactly the records of residue names outside the set consumed by the first
\* loop and the lines of an item whose first line's residue name has a
\* reference order without the line's atom name; every other line has been
\* yielded exactly once.
C17_MissingLines ==
    Done =>
       LET missing == SkippedRefs \cup UnorderedRefs
           count == YieldCounts
       IN  \A r \in Refs : count[r] = IF r \in missing THEN 0 ELSE 1

\* the run is over with one line missing of each kind, a line yielded by the
\* first loop and a line of an item yielded
C17_Witness ==
    /\ Done
    /\ SkippedRefs # {}
    /\ UnorderedRefs # {}
    /\ \E r \in BucketRefs : YieldCounts[r] = 1
    /\ \E r \in Refs : r < buffer_line /\ YieldCounts[r] = 1

\* ---------------------------------------------------------------- C18
\* the text of the yielded lines, one after the other in yield order
RECURSIVE Concat(_, _)
Concat(lines, n) ==
    IF n = 0 THEN <<>>
    ELSE IF n = 1 THEN lines[Len(lines)]
    ELSE Concat(SubSeq(lines, 1, Len(lines) - (n \div 2)), n - (n \div 2))
            \o Concat(lines, n \div 2)

\* C18: when main has ended and no write raised IOError, the text written to
\* sys.stdout is the text of the lines yielded by run, one after the other in
\* yield order, each line once, whether run yielded no line, fewer than
\* _buffer_size lines, a multiple of _buffer_size lines or more.
C18_BufferedWriter ==
    (pc = "exit_0" /\ ~ioerror) =>
       /\ lineno = Len(output)
       /\ stdout = Concat(OutputText, Len(output))

\* main has ended without IOError after more lines than the buffer holds, the
\* buffer was written in the loop and the rest after it
C18_Witness ==
    /\ pc = "exit_0"
    /\ ~ioerror
    /\ Len(output) > _buffer_size
    /\ _buffer # <<>>
    /\ Len(_buffer) < Len(output)
    /\ stdout # <<>>

====
